---- MODULE Spec2Model ----
(***************************************************************************)
(* Set-NMS of mmdet/core/post_processing/bbox_setnms.py.                   *)
(*                                                                         *)
(* set_nms_wrapper(dets, iou_thr) is the greedy suppression loop; set_nms  *)
(* is its caller (score filter before, max_num cap after).  Coordinates,   *)
(* scores and set ids are integers; iou_thr is the rational num/den.  A    *)
(* comparison with the float quotient ovr = inter / (area_i+area_j-inter)  *)
(* is modelled by cross-multiplication, with the IEEE outcomes of a zero   *)
(* divisor (0/0 = nan compares false both ways, x/0 = inf for x > 0).      *)
(* Indices are 0-based as in the source: row i of dets is dets[i + 1].     *)
(***************************************************************************)
EXTENDS Integers, Sequences, FiniteSets

\* ---- bounds of the model ------------------------------------------------
MaxN == 3
MaxX == 1
MaxY1 == 0
MaxY2 == 1
MaxScore == 2
MaxSet == 2
ThrDen == 2

\* ---- program constants ----------------------------------------------------
\* max_num=-1, the default of set_nms
DefaultMaxNum == -1

VARIABLES
    multi,      \* set_nms: the foreground rows (box, score, roi index) it is given
    score_thr,  \* set_nms: the score threshold
    max_num,    \* set_nms: the cap
    out,        \* set_nms: the indices (into dets) of the rows it returns, in order
    dets,       \* rows (x1, y1, x2, y2, score, set_index) handed to set_nms_wrapper
    iou_thr,    \* the threshold, [num, den] with den > 0
    order,      \* the remaining pool: indices into dets, best score first
    keep,       \* the keep-list built so far
    pc,         \* "set_nms" | "sort" | "loop" | "done" | "returned"
    caller,     \* "set_nms" when set_nms_wrapper runs inside set_nms, else "direct"
    run         \* 1: the call on the input, 2: the call on the rows it kept

vars == <<multi, score_thr, max_num, out, dets, iou_thr, order, keep, pc, caller, run>>
nmsvars == <<multi, score_thr, max_num, out>>

\* ---- helpers --------------------------------------------------------------
Max(a, b) == IF a >= b THEN a ELSE b
Min(a, b) == IF a <= b THEN a ELSE b

Range(s) == {s[k] : k \in 1..Len(s)}

\* the rows the inputs are drawn from: x2 < x1 gives the degenerate boxes
Dets == [x1 : 0..MaxX, y1 : 0..MaxY1, x2 : 0..MaxX, y2 : 0..MaxY2,
         score : 1..MaxScore, set : 1..MaxSet]
\* the thresholds: k / ThrDen from below 0 up to below 1
Thrs == {[num |-> k, den |-> ThrDen] : k \in (0 - 1)..(ThrDen - 1)}

SeqsUpTo(S, n) == UNION {[1..m -> S] : m \in 0..n}

\* ---- the arithmetic of one round (lines 99, 107-115) ----------------------
\* areas = (x2 - x1 + 1) * (y2 - y1 + 1)
areas(d) == (d.x2 - d.x1 + 1) * (d.y2 - d.y1 + 1)

\* w = np.maximum(0.0, xx2 - xx1 + 1), h likewise
w(a, b) == Max(0, Min(a.x2, b.x2) - Max(a.x1, b.x1) + 1)
h(a, b) == Max(0, Min(a.y2, b.y2) - Max(a.y1, b.y1) + 1)
inter(a, b) == w(a, b) * h(a, b)

\* mutant: ovr = inter / areas[i]
union_OfTop(a, b) == areas(a)

\* the divisor of ovr
union(a, b) == areas(a) + areas(b) - inter(a, b)

\* ovr is nan: 0.0 / 0.0
OvrNaN(a, b) == union(a, b) = 0 /\ inter(a, b) = 0

\* mutant: ovr < iou_thr
OvrLe_Strict(a, b, t) ==
    IF union(a, b) > 0 THEN inter(a, b) * t.den < t.num * union(a, b)
    ELSE IF union(a, b) < 0 THEN inter(a, b) * t.den > t.num * union(a, b)
    ELSE FALSE

\* ovr <= iou_thr, as the float comparison decides it
OvrLe(a, b, t) ==
    IF union(a, b) > 0 THEN inter(a, b) * t.den <= t.num * union(a, b)
    ELSE IF union(a, b) < 0 THEN inter(a, b) * t.den >= t.num * union(a, b)
    ELSE FALSE

\* ovr > iou_thr, as the float comparison decides it
OvrGt(a, b, t) ==
    IF union(a, b) > 0 THEN inter(a, b) * t.den > t.num * union(a, b)
    ELSE IF union(a, b) < 0 THEN inter(a, b) * t.den < t.num * union(a, b)
    ELSE inter(a, b) > 0

\* mutant: the exemption given to the other sets (!= for ==)
Survives_WrongSet(a, b, t) ==
    OvrLe(a, b, t) \/ (OvrGt(a, b, t) /\ b.set # a.set)

\* line 117: the mask of np.where for pool member j against the selected i
Survives(a, b, t) ==
    OvrLe(a, b, t) \/ (OvrGt(a, b, t) /\ b.set = a.set)

\* mutant: scores.argsort() without [::-1]
IsOrder_Ascending(o, D) ==
    /\ Len(o) = Len(D)
    /\ Range(o) = 0..(Len(D) - 1)
    /\ \A k \in 1..(Len(o) - 1) : D[o[k] + 1].score <= D[o[k + 1] + 1].score

\* line 100: scores.argsort()[::-1] -- every permutation of the indices with
\* non-increasing scores (the order of equal scores is the sort's choice)
IsOrder(o, D) ==
    /\ Len(o) = Len(D)
    /\ Range(o) = 0..(Len(D) - 1)
    /\ \A k \in 1..(Len(o) - 1) : D[o[k] + 1].score >= D[o[k + 1] + 1].score

Orders(D) == {o \in [1..Len(D) -> 0..(Len(D) - 1)] : IsOrder(o, D)}

\* mutant: order = order[inds + 0], the i of the round stays in the pool
Filtered_NoPop(o, D, t) ==
    SelectSeq(o, LAMBDA j : Survives(D[o[1] + 1], D[j + 1], t))

\* mutant: order = order[inds], the offset of order[1:] forgotten
Filtered_NoOffset(o, D, t) ==
    LET pos == SelectSeq([k \in 1..(Len(o) - 1) |-> k],
                         LAMBDA k : Survives(D[o[1] + 1], D[o[k + 1] + 1], t))
    IN  [m \in 1..Len(pos) |-> o[pos[m]]]

\* lines 117-118: order = order[inds + 1]
Filtered(o, D, t) ==
    SelectSeq(Tail(o), LAMBDA j : Survives(D[o[1] + 1], D[j + 1], t))

\* ---- set_nms_wrapper ------------------------------------------------------
Init ==
    /\ dets \in SeqsUpTo(Dets, MaxN)
    /\ iou_thr \in Thrs
    /\ order = <<>>
    /\ keep = <<>>
    /\ pc = "sort"
    /\ caller = "direct"
    /\ run = 1
    /\ multi = <<>>
    /\ score_thr = 0
    /\ max_num = DefaultMaxNum
    /\ out = <<>>

\* lines 92-102
Sort ==
    /\ pc = "sort"
    /\ order' \in Orders(dets)
    /\ keep' = <<>>
    /\ pc' = "loop"
    /\ UNCHANGED <<dets, iou_thr, caller, run, nmsvars>>

\* lines 103-118: one iteration of the while loop
Round ==
    /\ pc = "loop"
    /\ Len(order) > 0
    /\ keep' = Append(keep, order[1])
    /\ order' = Filtered(order, dets, iou_thr)
    /\ UNCHANGED <<dets, iou_thr, pc, caller, run, nmsvars>>

\* lines 103, 119: the loop ends, keep is returned
Return ==
    /\ pc = "loop"
    /\ Len(order) = 0
    /\ pc' = "done"
    /\ UNCHANGED <<dets, iou_thr, order, keep, caller, run, nmsvars>>

Next == Sort \/ Round \/ Return

Spec == Init /\ [][Next]_vars

\* termination: the loop is the only thing running, nothing preempts it
FairSpec == Spec /\ WF_vars(Next)

\* ---- set_nms_wrapper called again on the rows it kept --------------------
\* dets[keep]: the kept rows, in keep order, as the next call's input
KeptRows(D, k) == [m \in 1..Len(k) |-> D[k[m] + 1]]

Resubmit ==
    /\ pc = "done"
    /\ caller = "direct"
    /\ run = 1
    /\ dets' = KeptRows(dets, keep)
    /\ order' = <<>>
    /\ keep' = <<>>
    /\ pc' = "sort"
    /\ run' = 2
    /\ UNCHANGED <<iou_thr, caller, nmsvars>>

NextRerun == Sort \/ Round \/ Return \/ Resubmit

SpecRerun == Init /\ [][NextRerun]_vars

\* ---- set_nms ---------------------------------------------------------------
\* lines 42-48: the rows with scores > score_thr, in input order
Valid(M, st) == SelectSeq(M, LAMBDA r : r.score > st)

\* inds[:max_num] of Python: a negative bound counts from the end
SliceTo(s, m) ==
    IF m >= 0 THEN SubSeq(s, 1, Min(m, Len(s)))
    ELSE SubSeq(s, 1, Max(0, Len(s) + m))

\* lines 82-83: scores.sort(descending=True) over the kept rows -- positions
\* 0..Len(k)-1 of keep, scores non-increasing
KeptOrders(D, k) == Orders(KeptRows(D, k))

\* nms_cfg = dict(type='set_nms', iou_thr=0.5) (line 10)
NmsThrs == {t \in Thrs : 2 * t.num = t.den}

\* the detector's boxes have x1 <= x2 and y1 <= y2
WellFormed(d) == d.x1 <= d.x2 /\ d.y1 <= d.y2

InitNms ==
    /\ multi \in SeqsUpTo({d \in Dets : WellFormed(d)}, MaxN)
    /\ score_thr \in 0..(MaxScore - 1)
    /\ max_num \in DefaultMaxNum..MaxN
    /\ iou_thr \in NmsThrs
    /\ dets = <<>>
    /\ order = <<>>
    /\ keep = <<>>
    /\ out = <<>>
    /\ pc = "set_nms"
    /\ caller = "set_nms"
    /\ run = 1

\* lines 31-54 and 65-73: filter by score; nothing left returns at once
Filter ==
    /\ pc = "set_nms"
    /\ dets' = Valid(multi, score_thr)
    /\ pc' = IF Len(Valid(multi, score_thr)) = 0 THEN "returned" ELSE "sort"
    /\ UNCHANGED <<multi, score_thr, max_num, out, iou_thr, order, keep, caller, run>>

\* lines 74-88: gather the kept rows, cap them, return
Cap ==
    /\ pc = "done"
    /\ caller = "set_nms"
    /\ IF Len(keep) > max_num
       THEN \E inds \in KeptOrders(dets, keep) :
                out' = [m \in 1..Len(SliceTo(inds, max_num)) |->
                            keep[SliceTo(inds, max_num)[m] + 1]]
       ELSE out' = keep
    /\ pc' = "returned"
    /\ UNCHANGED <<multi, score_thr, max_num, dets, iou_thr, order, keep, caller, run>>

NextNms == Filter \/ Sort \/ Round \/ Return \/ Cap

SpecNms == InitNms /\ [][NextNms]_vars

\* ---- properties -----------------------------------------------------------
Idx == 0..(Len(dets) - 1)
Row(i) == dets[i + 1]
Kept == Range(keep)
Half == [num |-> 1, den |-> 2]

\* IoU(a, b) > t and IoU(a, b) = 0 for the quotient inter / (area_a + area_b -
\* inter) of the statements below; where the divisor is 0 there is no quotient
IoUGt(a, b, t) ==
    \/ union(a, b) > 0 /\ inter(a, b) * t.den > t.num * union(a, b)
    \/ union(a, b) < 0 /\ inter(a, b) * t.den < t.num * union(a, b)
IoUZero(a, b) == union(a, b) # 0 /\ inter(a, b) = 0

SameBox(a, b) == a.x1 = b.x1 /\ a.y1 = b.y1 /\ a.x2 = b.x2 /\ a.y2 = b.y2
ThrInUnit == iou_thr.num >= 0 /\ iou_thr.num < iou_thr.den

NonIncreasing(s) ==
    \A k \in 1..(Len(s) - 1) : Row(s[k]).score >= Row(s[k + 1]).score

InRound == pc = "loop" /\ Len(order) > 0

\* C1: in every round, with i = order[0], the pool becomes the rest of the pool
\* without exactly the j with IoU(i, j) > iou_thr and set_index[j] # set_index[i],
\* the others in their previous order, and i goes to the keep-list.
C1_RoundRemovesExactly ==
    [][InRound =>
        /\ order' = SelectSeq(Tail(order),
                LAMBDA j : ~(/\ IoUGt(Row(order[1]), Row(j), iou_thr)
                             /\ Row(j).set # Row(order[1]).set))
        /\ keep' = Append(keep, order[1])]_vars

\* C2: when all candidates share one set id, every candidate is kept, each
\* index once, in score-descending order.
C2_OneSetKeepsAll ==
    (pc = "done" /\ \A i, j \in Idx : Row(i).set = Row(j).set) =>
        /\ Len(keep) = Len(dets)
        /\ Kept = Idx
        /\ NonIncreasing(keep)

\* C3: the keep-list never holds two indices of different sets with
\* IoU > iou_thr; given just two identical boxes of different sets and distinct
\* scores at threshold 1/2, only the higher-scoring one is kept.
C3_NoCrossSetOverlapKept ==
    /\ \A i, j \in Kept :
          Row(i).set # Row(j).set => ~IoUGt(Row(i), Row(j), iou_thr)
    /\ ( /\ pc = "done"
         /\ Len(dets) = 2
         /\ iou_thr = Half
         /\ SameBox(dets[1], dets[2])
         /\ WellFormed(dets[1])
         /\ dets[1].set # dets[2].set
         /\ dets[1].score # dets[2].score )
       => keep = <<IF dets[1].score > dets[2].score THEN 0 ELSE 1>>

C3_Witness ==
    /\ pc = "done"
    /\ Len(dets) = 3
    /\ Len(keep) = 2
    /\ Row(keep[1]).set # Row(keep[2]).set
    /\ inter(Row(keep[1]), Row(keep[2])) > 0
    /\ \E j \in Idx \ Kept : IoUGt(Row(keep[1]), Row(j), iou_thr)

\* C4: the call on the rows a first call kept keeps all of them.
C4_RerunKeepsAll ==
    /\ (run = 2 /\ pc = "loop") => Len(keep) + Len(order) = Len(dets)
    /\ (run = 2 /\ pc = "done") => (Len(keep) = Len(dets) /\ Kept = Idx)

C4_Witness ==
    /\ run = 2
    /\ pc = "done"
    /\ Len(keep) = 2
    /\ IoUGt(dets[1], dets[2], iou_thr)

\* C5: the keep-list holds indices 0..n-1 of the input, none twice, at most n
\* of them; it is empty for n = 0 and [0] for n = 1.
C5_KeepIsIndexList ==
    /\ Kept \subseteq Idx
    /\ Cardinality(Kept) = Len(keep)
    /\ Len(keep) <= Len(dets)
    /\ (pc = "done" /\ Len(dets) = 0) => keep = <<>>
    /\ (pc = "done" /\ Len(dets) = 1) => keep = <<0>>

C5_Witness ==
    /\ pc = "done"
    /\ Len(dets) = 3
    /\ Len(keep) = 2

\* C6: the pool stays sorted by score descending and the scores along the
\* keep-list never increase.
C6_ScoresNonIncreasing ==
    /\ NonIncreasing(keep)
    /\ pc = "loop" => NonIncreasing(order)
    /\ (pc = "loop" /\ Len(keep) > 0 /\ Len(order) > 0) =>
          Row(keep[Len(keep)]).score >= Row(order[1]).score

C6_Witness ==
    /\ pc = "done"
    /\ Len(keep) = 3
    /\ Row(keep[1]).score > Row(keep[3]).score

\* C7 as stated: with iou_thr in [0,1), two candidates whose IoU is 0 are both
\* in the keep-list.  Stated for the inputs of well-formed boxes, where every
\* quotient exists.
C7_DisjointPairBothKept ==
    (pc = "done" /\ ThrInUnit /\ \A i \in Idx : WellFormed(Row(i))) =>
        \A i, j \in Idx :
            (i # j /\ IoUZero(Row(i), Row(j))) => (i \in Kept /\ j \in Kept)

\* C7 amended: with iou_thr in [0,1), the round of i removes no pool candidate
\* whose IoU with i is 0, so an input of two candidates with IoU 0 is kept whole.
C7_DisjointNeverSuppress ==
    /\ [][(InRound /\ ThrInUnit) =>
            \A k \in 2..Len(order) :
                IoUZero(Row(order[1]), Row(order[k])) => order[k] \in Range(order')]_vars
    /\ []((pc = "done" /\ ThrInUnit /\ Len(dets) = 2 /\ IoUZero(dets[1], dets[2]))
            => Kept = Idx)

C7_Witness ==
    /\ pc = "loop"
    /\ ThrInUnit
    /\ Len(keep) = 1
    /\ Len(dets) = 3
    /\ \E j \in Range(order) :
          /\ IoUZero(Row(keep[1]), Row(j))
          /\ Row(j).set # Row(keep[1]).set
          /\ Row(j).score < Row(keep[1]).score
    /\ Len(order) = 1

\* C8: set_nms returns the max_num best survivors when more than max_num
\* survive and every survivor otherwise; with max_num = -1 nothing is dropped.
C8_CapKeepsTopMaxNum ==
    (pc = "returned" /\ Len(dets) > 0) =>
        IF max_num >= 0 /\ Len(keep) > max_num
        THEN /\ Len(out) = max_num
             /\ Range(out) \subseteq Kept
             /\ Cardinality(Range(out)) = max_num
             /\ \A a \in Range(out) : \A b \in Kept \ Range(out) :
                    Row(a).score >= Row(b).score
        ELSE /\ Len(out) = Len(keep)
             /\ Range(out) = Kept

\* C9: every round takes the selected candidate out of the pool and appends
\* one index, and the loop ends, the pool empty, after at most n rounds.
C9_Terminates ==
    /\ [][(pc = "loop" /\ pc' = "loop") =>
            (Len(order') < Len(order) /\ Len(keep') = Len(keep) + 1)]_vars
    /\ [](pc = "loop" => Len(keep) + Len(order) <= Len(dets))
    /\ [](pc = "done" => (order = <<>> /\ Len(keep) <= Len(dets)))
    /\ <>(pc = "done")

C9_Witness ==
    /\ pc = "done"
    /\ Len(dets) = 3
    /\ Len(keep) = 3

\* C10: every index missing from the keep-list has a kept index of another set
\* with a score at least as high and IoU > iou_thr.
C10_DroppedHasSuppressor ==
    pc = "done" =>
        \A j \in Idx \ Kept :
            \E i \in Kept :
                /\ Row(i).score >= Row(j).score
                /\ Row(i).set # Row(j).set
                /\ IoUGt(Row(i), Row(j), iou_thr)
====
